---- MODULE Spec2Model ----
(***************************************************************************)
(* DemonMonitor of constraint_solver/demon_profiler.cc as a state machine. *)
(*                                                                         *)
(* The state is the monitor's fields.  A ConstraintRuns / DemonRuns        *)
(* protocol buffer is a record; the DemonRuns objects live inside the      *)
(* ConstraintRuns that created them and are shared by pointer with         *)
(* demon_map_ and demons_per_constraint_.  A demon has at most one live    *)
(* DemonRuns at a time (RegisterDemon creates one only for a demon that    *)
(* is not in demon_map_), so the object is stored once, under its demon,   *)
(* in demon_map_, and the two lists hold the demons whose objects they     *)
(* point to.                                                               *)
(*                                                                         *)
(* A failed CHECK aborts the process and a null dereference traps: no      *)
(* operation runs afterwards.  outcome records how the process stands.     *)
(***************************************************************************)
EXTENDS Integers, Sequences, FiniteSets, TLC

\* The constraints and demons the host engine hands to the monitor, each
\* list in the order in which the engine first names them.
ConstraintOrder == <<"c1", "c2">>
DemonOrder == <<"d1", "d2">>
Constraints == {ConstraintOrder[i] : i \in DOMAIN ConstraintOrder}
Demons == {DemonOrder[i] : i \in DOMAIN DemonOrder}
NULL == "NULL"

\* Largest value of the clock, and the most runs recorded over all demons.
MaxTime == 1
MaxRuns == 1
MaxStatRuns == 3
MaxRealRuns == 2

\* The (start_time, end_time) pairs a test hands to AddFakeRun.
FakeRuns == {<<1, 0>>}

VARIABLES
  active_constraint_,      \* Constraint* or NULL
  active_demon_,           \* Demon* or NULL
  constraint_map_,         \* hash_map<Constraint*, ConstraintRuns*>
  demon_map_,              \* hash_map<Demon*, DemonRuns*>
  demons_per_constraint_,  \* hash_map<Constraint*, vector<DemonRuns*> >
  now,                     \* what CurrentTime() returns
  outcome,                 \* "ok", or the CHECK / trap that ended the process
  e2e                      \* progress of the begin/register/run/end call sequence

vars == <<active_constraint_, active_demon_, constraint_map_, demon_map_,
          demons_per_constraint_, now, outcome, e2e>>

\* A null ConstraintRuns* / DemonRuns* stored in a map by operator[].
NullRuns == [null |-> TRUE]

\* new ConstraintRuns: every field at its protocol-buffer default.
NewConstraintRuns ==
  [initial_propagation_start_time |-> 0, initial_propagation_end_time |-> 0,
   failures |-> 0, demons |-> <<>>]

\* ct_run->add_demons(): a DemonRuns with every field at its default.
NewDemonRuns == [start_time |-> <<>>, end_time |-> <<>>, failures |-> 0]

\* demons_per_constraint_ with no vector, or only empty ones: the code reads
\* the map through operator[] alone, so a missing key and an empty vector
\* are the same to it.
NoDemons == [c \in Constraints |-> <<>>]

E2EIdle == [stage |-> "none", c |-> NULL, r |-> NULL, n |-> 0]

\* hash_map::operator[] as an lvalue: m[k] = v.
MapSet(m, k, v) == [x \in (DOMAIN m) \cup {k} |-> IF x = k THEN v ELSE m[x]]

\* hash_map::operator[] as an rvalue: a missing key is inserted with the
\* value-initialised mapped value.
MapTouch(m, k, dflt) == IF k \in DOMAIN m THEN m ELSE MapSet(m, k, dflt)

\* hash_map::find(k) != end()
Has(m, k) == k \in DOMAIN m

RECURSIVE SumLen(_, _)
\* Number of start timestamps held by the records of the demons in S.
SumLen(m, S) ==
  IF S = {} THEN 0
  ELSE LET d == CHOOSE x \in S : TRUE
       IN (IF m[d] = NullRuns THEN 0 ELSE Len(m[d].start_time)) + SumLen(m, S \ {d})

\* Room for one more run within the model's bound.
RunRoom == SumLen(demon_map_, DOMAIN demon_map_) < MaxRuns

\* The same where every run is a real one.
RealRunRoom == SumLen(demon_map_, DOMAIN demon_map_) < MaxRealRuns

\* What a call of CurrentTime() may return: the wall clock has not gone back
\* since the last reading.
Readings == {t \in {now, now + 1} : t <= MaxTime}

\* CurrentTime() returns t.
CurrentTime(t) == t \in Readings /\ now' = t

\* The process ends: a CHECK failed (abort) or a null pointer was
\* dereferenced.  What was written before that point stays written.
Die(how) ==
  /\ outcome' = how
  /\ e2e' = E2EIdle

\* What is left of the writes a handler made just before it dereferenced a
\* null pointer: the behaviour is undefined from there, the process traps
\* with those writes done (written = TRUE) or not done.
WritesBeforeTrap == BOOLEAN

\* The call returns normally.
Return(mon) ==
  /\ outcome' = "ok"
  /\ e2e' = mon

Init ==
  /\ active_constraint_ = NULL
  /\ active_demon_ = NULL
  /\ constraint_map_ = <<>>
  /\ demon_map_ = <<>>
  /\ demons_per_constraint_ = NoDemons
  /\ now = 0
  /\ outcome = "ok"
  /\ e2e = E2EIdle

\* Fault variant: StartInitialPropagation without
\* CHECK(active_constraint_ == NULL).
StartInitialPropagationChecksNoConstraintCheck(constraint) ==
  IF active_demon_ # NULL THEN "CHECK@50"
  ELSE IF constraint = NULL THEN "CHECK@51"
  ELSE "ok"

\* Fault variant: StartInitialPropagation without CHECK(active_demon_ == NULL).
StartInitialPropagationChecksNoDemonCheck(constraint) ==
  IF active_constraint_ # NULL THEN "CHECK@49"
  ELSE IF constraint = NULL THEN "CHECK@51"
  ELSE "ok"

\* The CHECKs of lines 49-51: the first that fails, or "ok".
StartInitialPropagationChecks(constraint) ==
  IF active_constraint_ # NULL THEN "CHECK@49"
  ELSE IF active_demon_ # NULL THEN "CHECK@50"
  ELSE IF constraint = NULL THEN "CHECK@51"
  ELSE "ok"

StartInitialPropagation(constraint) ==
  /\ outcome = "ok"
  /\ IF StartInitialPropagationChecks(constraint) # "ok"
     THEN /\ Die(StartInitialPropagationChecks(constraint))
          /\ UNCHANGED <<active_constraint_, active_demon_, constraint_map_,
                         demon_map_, demons_per_constraint_, now>>
     ELSE \E t \in Readings :
          /\ CurrentTime(t)
          /\ active_constraint_' = constraint
          /\ constraint_map_' =
               MapSet(constraint_map_, constraint,
                      [NewConstraintRuns EXCEPT
                         !.initial_propagation_start_time = t])
          /\ Return([stage |-> "begun", c |-> constraint, r |-> NULL, n |-> 0])
          /\ UNCHANGED <<active_demon_, demon_map_, demons_per_constraint_>>

EndInitialPropagation(constraint) ==
  /\ outcome = "ok"
  /\ IF active_constraint_ = NULL
     THEN /\ Die("CHECK@60")
          /\ UNCHANGED <<active_constraint_, active_demon_, constraint_map_,
                         demon_map_, demons_per_constraint_, now>>
     ELSE IF active_demon_ # NULL
     THEN /\ Die("CHECK@61")
          /\ UNCHANGED <<active_constraint_, active_demon_, constraint_map_,
                         demon_map_, demons_per_constraint_, now>>
     ELSE IF constraint = NULL
     THEN /\ Die("CHECK@62")
          /\ UNCHANGED <<active_constraint_, active_demon_, constraint_map_,
                         demon_map_, demons_per_constraint_, now>>
     ELSE IF constraint # active_constraint_
     THEN /\ Die("CHECK@63")
          /\ UNCHANGED <<active_constraint_, active_demon_, constraint_map_,
                         demon_map_, demons_per_constraint_, now>>
     ELSE LET touched == MapTouch(constraint_map_, constraint, NullRuns)
              ct_run == touched[constraint]
          IN IF ct_run = NullRuns
             THEN /\ constraint_map_' = touched
                  /\ Die("CHECK@65")
                  /\ UNCHANGED <<active_constraint_, active_demon_, demon_map_,
                                 demons_per_constraint_, now>>
             ELSE \E t \in Readings :
                  /\ CurrentTime(t)
                  /\ constraint_map_' =
                       MapSet(touched, constraint,
                              [ct_run EXCEPT
                                 !.initial_propagation_end_time = t,
                                 !.failures = 0])
                  /\ active_constraint_' = NULL
                  /\ Return(IF e2e.stage = "registered" /\ e2e.c = constraint
                               /\ e2e.n >= 1
                            THEN [e2e EXCEPT !.stage = "closed"]
                            ELSE E2EIdle)
                  /\ UNCHANGED <<active_demon_, demon_map_,
                                 demons_per_constraint_>>

\* Fault variant: the new DemonRuns put at the front of the vector.
PushFront(demons, demon) == <<demon>> \o demons

\* demons_per_constraint_[active_constraint_].push_back(demon_run)
PushBack(demons, demon) == Append(demons, demon)

\* Fault variant: RegisterDemon without the lookup, every call registers.
KnownNever(demon) == FALSE

\* demon_map_.find(demon) != demon_map_.end()
Known(demon) == Has(demon_map_, demon)

RegisterDemon(demon) ==
  /\ outcome = "ok"
  /\ IF Known(demon)
     THEN /\ Return(E2EIdle)
          /\ UNCHANGED <<active_constraint_, active_demon_, constraint_map_,
                         demon_map_, demons_per_constraint_, now>>
     ELSE IF active_constraint_ = NULL
     THEN /\ Die("CHECK@73")
          /\ UNCHANGED <<active_constraint_, active_demon_, constraint_map_,
                         demon_map_, demons_per_constraint_, now>>
     ELSE IF active_demon_ # NULL
     THEN /\ Die("CHECK@74")
          /\ UNCHANGED <<active_constraint_, active_demon_, constraint_map_,
                         demon_map_, demons_per_constraint_, now>>
     ELSE IF demon = NULL
     THEN /\ Die("CHECK@75")
          /\ UNCHANGED <<active_constraint_, active_demon_, constraint_map_,
                         demon_map_, demons_per_constraint_, now>>
     ELSE LET touched == MapTouch(constraint_map_, active_constraint_, NullRuns)
              ct_run == touched[active_constraint_]
          IN IF ct_run = NullRuns
             THEN \* ct_run->add_demons() through a null pointer
                  /\ \E written \in WritesBeforeTrap :
                       constraint_map_' =
                         IF written THEN touched ELSE constraint_map_
                  /\ Die("SIGSEGV@77")
                  /\ UNCHANGED <<active_constraint_, active_demon_, demon_map_,
                                 demons_per_constraint_, now>>
             ELSE /\ constraint_map_' =
                       MapSet(touched, active_constraint_,
                              [ct_run EXCEPT !.demons = Append(@, demon)])
                  /\ demon_map_' = MapSet(demon_map_, demon, NewDemonRuns)
                  /\ demons_per_constraint_' =
                       [demons_per_constraint_ EXCEPT
                          ![active_constraint_] = PushBack(@, demon)]
                  /\ Return(IF e2e.stage = "begun" /\ e2e.c = active_constraint_
                            THEN [e2e EXCEPT !.stage = "registered", !.r = demon]
                            ELSE E2EIdle)
                  /\ UNCHANGED <<active_constraint_, active_demon_, now>>

StartDemonRun(demon) ==
  /\ outcome = "ok"
  /\ IF active_demon_ # NULL
     THEN /\ Die("CHECK@86")
          /\ UNCHANGED <<active_constraint_, active_demon_, constraint_map_,
                         demon_map_, demons_per_constraint_, now>>
     ELSE IF demon = NULL
     THEN /\ Die("CHECK@87")
          /\ UNCHANGED <<active_constraint_, active_demon_, constraint_map_,
                         demon_map_, demons_per_constraint_, now>>
     ELSE LET touched == MapTouch(demon_map_, demon, NullRuns)
              demon_run == touched[demon]
          IN IF demon_run = NullRuns
             THEN \* demon_run->add_start_time() through a null pointer
                  /\ \E written \in WritesBeforeTrap :
                       /\ active_demon_' =
                            IF written THEN demon ELSE active_demon_
                       /\ demon_map_' = IF written THEN touched ELSE demon_map_
                  /\ Die("SIGSEGV@90")
                  /\ UNCHANGED <<active_constraint_, constraint_map_,
                                 demons_per_constraint_, now>>
             ELSE \E t \in Readings :
                  /\ CurrentTime(t)
                  /\ active_demon_' = demon
                  /\ demon_map_' =
                       MapSet(touched, demon,
                              [demon_run EXCEPT
                                 !.start_time = Append(@, t)])
                  /\ Return(IF e2e.stage = "registered" /\ e2e.r = demon
                            THEN [e2e EXCEPT !.stage = "running"]
                            ELSE E2EIdle)
                  /\ UNCHANGED <<active_constraint_, constraint_map_,
                                 demons_per_constraint_>>

EndDemonRun(demon) ==
  /\ outcome = "ok"
  /\ IF active_demon_ # demon
     THEN /\ Die("CHECK@94")
          /\ UNCHANGED <<active_constraint_, active_demon_, constraint_map_,
                         demon_map_, demons_per_constraint_, now>>
     ELSE IF demon = NULL
     THEN /\ Die("CHECK@95")
          /\ UNCHANGED <<active_constraint_, active_demon_, constraint_map_,
                         demon_map_, demons_per_constraint_, now>>
     ELSE LET touched == MapTouch(demon_map_, active_demon_, NullRuns)
              demon_run == touched[active_demon_]
          IN IF demon_run = NullRuns
             THEN /\ demon_map_' = touched
                  /\ Die("CHECK@97")
                  /\ UNCHANGED <<active_constraint_, active_demon_,
                                 constraint_map_, demons_per_constraint_, now>>
             ELSE \E t \in Readings :
                  /\ CurrentTime(t)
                  /\ demon_map_' =
                       MapSet(touched, active_demon_,
                              [demon_run EXCEPT
                                 !.end_time = Append(@, t)])
                  /\ active_demon_' = NULL
                  /\ Return(IF e2e.stage = "running" /\ e2e.r = demon
                            THEN [e2e EXCEPT !.stage = "registered", !.n = @ + 1]
                            ELSE E2EIdle)
                  /\ UNCHANGED <<active_constraint_, constraint_map_,
                                 demons_per_constraint_>>

\* Fault variant: the constraint branch of RaiseFailure setting the start
\* time where it should set the end time.
FailConstraintSetsStartTime ==
  IF active_demon_ = NULL
  THEN /\ Die("CHECK@104")
       /\ UNCHANGED <<active_constraint_, active_demon_, constraint_map_,
                      demon_map_, demons_per_constraint_, now>>
  ELSE LET touched == MapTouch(constraint_map_, active_constraint_, NullRuns)
           ct_run == touched[active_constraint_]
       IN IF ct_run = NullRuns
          THEN /\ constraint_map_' = touched
               /\ Die("CHECK@106")
               /\ UNCHANGED <<active_constraint_, active_demon_, demon_map_,
                              demons_per_constraint_, now>>
          ELSE \E t \in Readings :
               /\ CurrentTime(t)
               /\ constraint_map_' =
                    MapSet(touched, active_constraint_,
                           [ct_run EXCEPT
                              !.initial_propagation_start_time = t,
                              !.failures = 1])
               /\ active_constraint_' = NULL
               /\ Return(E2EIdle)
               /\ UNCHANGED <<active_demon_, demon_map_,
                              demons_per_constraint_>>

\* Lines 104-109: a constraint is active.
FailConstraint ==
  IF active_demon_ = NULL
  THEN /\ Die("CHECK@104")
       /\ UNCHANGED <<active_constraint_, active_demon_, constraint_map_,
                      demon_map_, demons_per_constraint_, now>>
  ELSE LET touched == MapTouch(constraint_map_, active_constraint_, NullRuns)
           ct_run == touched[active_constraint_]
       IN IF ct_run = NullRuns
          THEN /\ constraint_map_' = touched
               /\ Die("CHECK@106")
               /\ UNCHANGED <<active_constraint_, active_demon_, demon_map_,
                              demons_per_constraint_, now>>
          ELSE \E t \in Readings :
               /\ CurrentTime(t)
               /\ constraint_map_' =
                    MapSet(touched, active_constraint_,
                           [ct_run EXCEPT
                              !.initial_propagation_end_time = t,
                              !.failures = 1])
               /\ active_constraint_' = NULL
               /\ Return(E2EIdle)
               /\ UNCHANGED <<active_demon_, demon_map_,
                              demons_per_constraint_>>

\* Fault variant: the demon branch of RaiseFailure without add_end_time.
FailDemonNoEndTime ==
  LET touched == MapTouch(demon_map_, active_demon_, NullRuns)
      demon_run == touched[active_demon_]
  IN IF demon_run = NullRuns
     THEN /\ demon_map_' = touched
          /\ Die("SIGSEGV@112")
          /\ UNCHANGED <<active_constraint_, active_demon_, constraint_map_,
                         demons_per_constraint_, now>>
     ELSE \E t \in Readings :
          /\ CurrentTime(t)
          /\ demon_map_' =
               MapSet(touched, active_demon_,
                      [demon_run EXCEPT !.failures = @ + 1])
          /\ active_demon_' = NULL
          /\ Return(E2EIdle)
          /\ UNCHANGED <<active_constraint_, constraint_map_,
                         demons_per_constraint_>>

\* Lines 111-114: no constraint is active and a demon is.
FailDemon ==
  LET touched == MapTouch(demon_map_, active_demon_, NullRuns)
      demon_run == touched[active_demon_]
  IN IF demon_run = NullRuns
     THEN \* demon_run->add_end_time() through a null pointer
          /\ \E written \in WritesBeforeTrap :
               demon_map_' = IF written THEN touched ELSE demon_map_
          /\ Die("SIGSEGV@112")
          /\ UNCHANGED <<active_constraint_, active_demon_, constraint_map_,
                         demons_per_constraint_, now>>
     ELSE \E t \in Readings :
          /\ CurrentTime(t)
          /\ demon_map_' =
               MapSet(touched, active_demon_,
                      [demon_run EXCEPT
                         !.end_time = Append(@, t),
                         !.failures = @ + 1])
          /\ active_demon_' = NULL
          /\ Return(E2EIdle)
          /\ UNCHANGED <<active_constraint_, constraint_map_,
                         demons_per_constraint_>>

\* Neither branch of lines 103-115 is taken.
FailOutsidePhase ==
  /\ Return(E2EIdle)
  /\ UNCHANGED <<active_constraint_, active_demon_, constraint_map_,
                 demon_map_, demons_per_constraint_, now>>

\* Fault variant: RaiseFailure whose second branch is a plain else.
RaiseFailureNoDemonTest ==
  /\ outcome = "ok"
  /\ IF active_constraint_ # NULL THEN FailConstraint
     ELSE FailDemon

RaiseFailure ==
  /\ outcome = "ok"
  /\ IF active_constraint_ # NULL THEN FailConstraint
     ELSE IF active_demon_ # NULL THEN FailDemon
     ELSE FailOutsidePhase

AddFakeRun(demon, start_time, end_time, is_fail) ==
  /\ outcome = "ok"
  /\ IF demon = NULL
     THEN /\ Die("CHECK@123")
          /\ UNCHANGED <<active_constraint_, active_demon_, constraint_map_,
                         demon_map_, demons_per_constraint_, now>>
     ELSE LET touched == MapTouch(demon_map_, demon, NullRuns)
              demon_run == touched[demon]
          IN IF demon_run = NullRuns
             THEN /\ demon_map_' = touched
                  /\ Die("CHECK@125")
                  /\ UNCHANGED <<active_constraint_, active_demon_,
                                 constraint_map_, demons_per_constraint_, now>>
             ELSE /\ demon_map_' =
                       MapSet(touched, demon,
                              [demon_run EXCEPT
                                 !.start_time = Append(@, start_time),
                                 !.end_time = Append(@, end_time),
                                 !.failures = IF is_fail THEN @ + 1 ELSE @])
                  /\ Return(E2EIdle)
                  /\ UNCHANGED <<active_constraint_, active_demon_,
                                 constraint_map_, demons_per_constraint_, now>>

\* Fault variant: RestartSearch without demons_per_constraint_.clear().
RestartSearchKeepsLists ==
  /\ outcome = "ok"
  /\ constraint_map_' = <<>>
  /\ demon_map_' = <<>>
  /\ Return(E2EIdle)
  /\ UNCHANGED <<active_constraint_, active_demon_, demons_per_constraint_,
                 now>>

\* STLDeleteContainerPairSecondPointers frees every ConstraintRuns of
\* constraint_map_ and with it the DemonRuns it holds; the three maps are
\* then cleared, so no pointer to a freed object is kept.
RestartSearch ==
  /\ outcome = "ok"
  /\ constraint_map_' = <<>>
  /\ demon_map_' = <<>>
  /\ demons_per_constraint_' = NoDemons
  /\ Return(E2EIdle)
  /\ UNCHANGED <<active_constraint_, active_demon_, now>>

RECURSIVE RunsTotal(_, _)
\* The loop of lines 239-243 / 265-270: the sum of end_time(i) - start_time(i)
\* over the first runs entries.
RunsTotal(demon_runs, runs) ==
  IF runs = 0 THEN 0
  ELSE RunsTotal(demon_runs, runs - 1)
       + (demon_runs.end_time[runs] - demon_runs.start_time[runs])

RECURSIVE GatherInformation(_, _, _, _)
\* The loop of lines 233-244 from index demon_index on; acc holds the output
\* parameters.  It stops at the first DemonRuns whose sizes differ.
GatherInformation(ct_run, dmap, demon_index, acc) ==
  IF demon_index > Len(ct_run.demons) THEN acc
  ELSE LET demon_runs == dmap[ct_run.demons[demon_index]]
       IN IF Len(demon_runs.start_time) # Len(demon_runs.end_time)
          THEN [acc EXCEPT !.outcome = "CHECK@236"]
          ELSE GatherInformation(ct_run, dmap, demon_index + 1,
                 [acc EXCEPT
                    !.fails = @ + demon_runs.failures,
                    !.demon_invocations = @ + Len(demon_runs.start_time),
                    !.total_demon_runtime =
                       @ + RunsTotal(demon_runs, Len(demon_runs.start_time))])

\* ExportInformation(Constraint*) from line 224 on, for a non-null ct_run.
ConstraintInformation(constraint, ct_run, dmap, dpc) ==
  LET acc0 == [outcome |-> "ok",
               kind |-> "Constraint",
               fails |-> ct_run.failures,
               initial_propagation_runtime |->
                 ct_run.initial_propagation_end_time
                   - ct_run.initial_propagation_start_time,
               demon_invocations |-> 0,
               total_demon_runtime |-> 0,
               demons |-> Len(ct_run.demons)]
  IN IF Len(ct_run.demons) # Len(dpc[constraint])
     THEN [acc0 EXCEPT !.outcome = "CHECK@232"]
     ELSE GatherInformation(ct_run, dmap, 1, acc0)

\* The values handed back through the output parameters.
Outputs(info) ==
  [kind |-> "Constraint",
   fails |-> info.fails,
   initial_propagation_runtime |-> info.initial_propagation_runtime,
   demon_invocations |-> info.demon_invocations,
   total_demon_runtime |-> info.total_demon_runtime,
   demons |-> info.demons]

\* What ExportInformation(constraint, ...) does in the current state for a
\* non-null constraint: the CHECK that fails, or "ok" and the outputs.
Exported(constraint) ==
  IF ~Has(constraint_map_, constraint) \/ constraint_map_[constraint] = NullRuns
  THEN [outcome |-> "CHECK@223"]
  ELSE ConstraintInformation(constraint, constraint_map_[constraint],
                             demon_map_, demons_per_constraint_)

\* DemonMonitorExportInformation -> ExportInformation(Constraint*, ...)
ExportInformation(constraint) ==
  /\ outcome = "ok"
  /\ IF constraint = NULL
     THEN /\ Die("CHECK@221")
          /\ UNCHANGED <<active_constraint_, active_demon_, constraint_map_,
                         demon_map_, demons_per_constraint_, now>>
     ELSE LET touched == MapTouch(constraint_map_, constraint, NullRuns)
              ct_run == touched[constraint]
          IN IF ct_run = NullRuns
             THEN /\ constraint_map_' = touched
                  /\ Die("CHECK@223")
                  /\ UNCHANGED <<active_constraint_, active_demon_, demon_map_,
                                 demons_per_constraint_, now>>
             ELSE LET info == Exported(constraint)
                  IN /\ IF info.outcome = "ok"
                        THEN Return(E2EIdle)
                        ELSE Die(info.outcome)
                     /\ UNCHANGED <<active_constraint_, active_demon_,
                                    constraint_map_, demon_map_,
                                    demons_per_constraint_, now>>

RECURSIVE InsertSorted(_, _)
InsertSorted(x, sorted) ==
  IF sorted = <<>> THEN <<x>>
  ELSE IF x <= Head(sorted) THEN <<x>> \o sorted
  ELSE <<Head(sorted)>> \o InsertSorted(x, Tail(sorted))

RECURSIVE Sort(_)
\* sort(runtimes.begin(), runtimes.end())
Sort(runtimes) ==
  IF runtimes = <<>> THEN <<>>
  ELSE InsertSorted(Head(runtimes), Sort(Tail(runtimes)))

\* runtimes of lines 264-270: end_time(i) - start_time(i) per run.
Runtimes(demon_runs) ==
  [i \in 1..Len(demon_runs.start_time) |->
     demon_runs.end_time[i] - demon_runs.start_time[i]]

RECURSIVE SquaresTotal(_, _, _)
\* The sum over the first k runtimes of (size * runtime - total)^2, which is
\* size^2 times the total_deviation of lines 288-292.
SquaresTotal(runtimes, total, k) ==
  IF k = 0 THEN 0
  ELSE SquaresTotal(runtimes, total, k - 1)
       + (Len(runtimes) * runtimes[k] - total) * (Len(runtimes) * runtimes[k] - total)

\* Fault variant: the mean by integer division, without the 1.0L factor.
MeanRuntimeIntegerDivision(total, runs) ==
  [num |-> IF runs = 0 THEN 0 ELSE total \div runs, den |-> 1]

\* Lines 261 and 272-273: the mean as the fraction num / den.
MeanRuntime(total, runs) ==
  [num |-> IF runs = 0 THEN 0 ELSE total,
   den |-> IF runs = 0 THEN 1 ELSE runs]

\* Fault variant: the upper middle element also when the size is even.
MedianRuntimeUpperMiddle(runtimes) ==
  [num |-> IF runtimes = <<>> THEN 0 ELSE runtimes[Len(runtimes) \div 2 + 1],
   den |-> 1]

\* Lines 262 and 275-285, for the sorted runtimes (0-based pivot in the
\* source, 1-based here): the median as the fraction num / den.
MedianRuntime(runtimes) ==
  LET runs == Len(runtimes)
      pivot == runs \div 2
  IN [num |-> IF runs = 0 THEN 0
              ELSE IF runs = 1 THEN runtimes[1]
              ELSE IF runs % 2 = 1 THEN runtimes[pivot + 1]
              ELSE runtimes[pivot] + runtimes[pivot + 1],
      den |-> IF runs > 1 /\ runs % 2 = 0 THEN 2 ELSE 1]

\* Fault variant: the sample variance, divisor size - 1.
RuntimeVarianceSample(runtimes, total) ==
  LET runs == Len(runtimes)
  IN [num |-> IF runs = 0 THEN 0 ELSE SquaresTotal(runtimes, total, runs),
      den |-> IF runs = 0 THEN 1 ELSE runs * runs * (runs - 1)]

\* Lines 263 and 287-294: stddev^2 = total_deviation / size as the fraction
\* num / den.
RuntimeVariance(runtimes, total) ==
  LET runs == Len(runtimes)
  IN [num |-> IF runs = 0 THEN 0 ELSE SquaresTotal(runtimes, total, runs),
      den |-> IF runs = 0 THEN 1 ELSE runs * runs * runs]

\* ExportInformation(DemonRuns*, ...) for a non-null demon_runs.  The three
\* doubles are kept as exact fractions: mean = mean_num / mean_den,
\* median = median_num / median_den, stddev^2 = variance_num / variance_den.
DemonInformation(demon_runs) ==
  IF Len(demon_runs.start_time) # Len(demon_runs.end_time)
  THEN [outcome |-> "CHECK@255"]
  ELSE LET runs == Len(demon_runs.start_time)
           total == RunsTotal(demon_runs, runs)
           runtimes == Sort(Runtimes(demon_runs))
       IN [outcome |-> "ok",
           kind |-> "Demon",
           demon_invocations |-> runs,
           fails |-> demon_runs.failures,
           total_demon_runtime |-> total,
           mean_num |-> MeanRuntime(total, runs).num,
           mean_den |-> MeanRuntime(total, runs).den,
           median_num |-> MedianRuntime(runtimes).num,
           median_den |-> MedianRuntime(runtimes).den,
           variance_num |-> RuntimeVariance(runtimes, total).num,
           variance_den |-> RuntimeVariance(runtimes, total).den]

RECURSIVE DemonLines(_, _, _, _)
\* The loop of lines 175-199 over demons_per_constraint_[it->first].
DemonLines(demons, dmap, demon_index, acc) ==
  IF demon_index > Len(demons) THEN acc
  ELSE LET info == DemonInformation(dmap[demons[demon_index]])
       IN IF info.outcome # "ok"
          THEN [acc EXCEPT !.outcome = info.outcome]
          ELSE DemonLines(demons, dmap, demon_index + 1,
                 [acc EXCEPT
                    !.lines = Append(@, [id |-> demons[demon_index],
                                         info |-> info])])

RECURSIVE ConstraintLines(_, _, _, _, _, _)
\* The loop of lines 149-200 over constraint_map_, visited in the order
\* given; acc holds the lines written and how the loop stands.
ConstraintLines(order, cmap, dmap, dpc, index, acc) ==
  IF index > Len(order) \/ acc.outcome # "ok" THEN acc
  ELSE LET constraint == order[index]
           info == IF cmap[constraint] = NullRuns
                   THEN [outcome |-> "CHECK@223"]
                   ELSE ConstraintInformation(constraint, cmap[constraint],
                                              dmap, dpc)
       IN IF info.outcome # "ok"
          THEN [acc EXCEPT !.outcome = info.outcome]
          ELSE ConstraintLines(order, cmap, dmap, dpc, index + 1,
                 DemonLines(dpc[constraint], dmap, 1,
                   [acc EXCEPT
                      !.lines = Append(@, [id |-> constraint,
                                           info |-> Outputs(info)])]))

\* The orders in which a hash_map iteration may visit the keys of m.
Orders(m) ==
  {order \in [1..Cardinality(DOMAIN m) -> DOMAIN m] :
     \A i, j \in DOMAIN order : order[i] = order[j] => i = j}

\* What PrintOverview writes when the file opens and constraint_map_ is
\* visited in the order given: one entry per line, holding the values handed
\* to StringPrintf.
Overview(order) ==
  ConstraintLines(order, constraint_map_, demon_map_, demons_per_constraint_,
                  1, [outcome |-> "ok", lines |-> <<>>])

\* opened: whether the ofstream could be opened; order: the iteration order
\* of constraint_map_.
PrintOverview(opened, order) ==
  /\ outcome = "ok"
  /\ order \in Orders(constraint_map_)
  /\ IF ~opened
     THEN /\ Return(E2EIdle)
          /\ UNCHANGED <<active_constraint_, active_demon_, constraint_map_,
                         demon_map_, demons_per_constraint_, now>>
     ELSE LET out == Overview(order)
          IN /\ IF out.outcome = "ok"
                THEN Return(E2EIdle)
                ELSE Die(out.outcome)
             /\ UNCHANGED <<active_constraint_, active_demon_, constraint_map_,
                            demon_map_, demons_per_constraint_, now>>

\* The identities a call may name: those the monitor already holds, and
\* the first of the list it does not hold yet (which object the engine
\* creates next is a matter of naming).  The engine passes no null pointer:
\* Solver::RegisterDemon and DemonProfiler's constructor check theirs.
Named(order, held) ==
  {order[i] : i \in {j \in DOMAIN order :
                       \A k \in 1..(j - 1) : order[k] \in held}}

ConstraintArgs ==
  Named(ConstraintOrder, (DOMAIN constraint_map_) \cup {active_constraint_})

DemonArgs == Named(DemonOrder, (DOMAIN demon_map_) \cup {active_demon_})

Next ==
  \/ \E constraint \in ConstraintArgs : StartInitialPropagation(constraint)
  \/ \E constraint \in ConstraintArgs : EndInitialPropagation(constraint)
  \/ \E demon \in DemonArgs : RegisterDemon(demon)
  \/ \E demon \in DemonArgs :
       /\ (active_demon_ = NULL /\ Has(demon_map_, demon)) => RunRoom
       /\ StartDemonRun(demon)
  \/ \E demon \in DemonArgs : EndDemonRun(demon)
  \/ RaiseFailure
  \/ \E demon \in DemonArgs, run \in FakeRuns, is_fail \in BOOLEAN :
       /\ Has(demon_map_, demon) => RunRoom
       /\ AddFakeRun(demon, run[1], run[2], is_fail)
  \/ RestartSearch
  \/ \E constraint \in ConstraintArgs : ExportInformation(constraint)
  \/ \E opened \in BOOLEAN, order \in Orders(constraint_map_) :
       PrintOverview(opened, order)

Spec == Init /\ [][Next]_vars

\* The monitor as the engine drives it while it records: every call that
\* changes the records but AddFakeRun, which only unit tests make.
\* One constraint is posted, with the demons it registers.
FirstConstraint == {ConstraintOrder[1]}

NextNoFake ==
  \/ \E constraint \in FirstConstraint : StartInitialPropagation(constraint)
  \/ \E constraint \in FirstConstraint : EndInitialPropagation(constraint)
  \/ \E demon \in DemonArgs : RegisterDemon(demon)
  \/ \E demon \in DemonArgs :
       /\ (active_demon_ = NULL /\ Has(demon_map_, demon)) => RealRunRoom
       /\ StartDemonRun(demon)
  \/ \E demon \in DemonArgs : EndDemonRun(demon)
  \/ RaiseFailure
  \/ RestartSearch

SpecNoFake == Init /\ [][NextNoFake]_vars

-----------------------------------------------------------------------------
\* The statistics of one demon.  The monitor has been through
\* StartInitialPropagation(c1), RegisterDemon(d1), EndInitialPropagation(c1)
\* at time 0; runs are then added to d1 with AddFakeRun, as the unit tests
\* do, and read back through the overview.

\* The (start_time, end_time) pairs added: runtimes 5, 10, 15, 20 and 30.
StatRuns == {<<0, 5>>, <<0, 10>>, <<0, 15>>, <<0, 20>>, <<0, 30>>}

StatsInit ==
  /\ active_constraint_ = NULL
  /\ active_demon_ = NULL
  /\ constraint_map_ =
       [c \in {"c1"} |-> [NewConstraintRuns EXCEPT !.demons = <<"d1">>]]
  /\ demon_map_ = [d \in {"d1"} |-> NewDemonRuns]
  /\ demons_per_constraint_ = [NoDemons EXCEPT !["c1"] = <<"d1">>]
  /\ now = 0
  /\ outcome = "ok"
  /\ e2e = E2EIdle

StatsNext ==
  \/ \E demon \in DOMAIN demon_map_, run \in StatRuns, is_fail \in BOOLEAN :
       /\ Len(demon_map_[demon].start_time) < MaxStatRuns
       /\ AddFakeRun(demon, run[1], run[2], is_fail)
  \/ \E constraint \in DOMAIN constraint_map_ : ExportInformation(constraint)
  \/ \E opened \in BOOLEAN, order \in Orders(constraint_map_) :
       PrintOverview(opened, order)

StatsSpec == StatsInit /\ [][StatsNext]_vars

-----------------------------------------------------------------------------
\* Properties.  A property of one call is an action property whose
\* antecedent is the handler's own action formula; what a query would hand
\* back in a state is the operator Exported or Overview evaluated there.

Idle == active_constraint_ = NULL /\ active_demon_ = NULL

\* C1, as stated: in a state not reached through a fatal error, a
\* constraint and a demon are never active at the same time.
C1_MutualExclusion ==
  outcome = "ok" => ~(active_constraint_ # NULL /\ active_demon_ # NULL)

\* C1, amended: a constraint becomes active only when neither latch is set,
\* and a demon becomes active only when no demon is active (a constraint may
\* be); so the latches hold at most one constraint and at most one demon.
C1_PhasesStartExclusively ==
  [][outcome' = "ok" =>
       /\ (active_constraint_' # NULL /\ active_constraint_' # active_constraint_)
            => (Idle /\ active_demon_' = NULL)
       /\ (active_demon_' # NULL /\ active_demon_' # active_demon_)
            => active_demon_ = NULL]_vars

\* A demon runs while its constraint's initial propagation is open.
C1_Witness ==
  /\ outcome = "ok"
  /\ active_constraint_ # NULL
  /\ active_demon_ # NULL
  /\ Has(constraint_map_, active_constraint_)
  /\ Has(demon_map_, active_demon_)

\* C2: with a constraint active and no demon active, RaiseFailure completes,
\* sets the constraint's failures to 1 and its end time to the current
\* time, and clears the active constraint.
C2_FailureClosesConstraint ==
  [][(outcome = "ok" /\ active_constraint_ # NULL /\ active_demon_ = NULL
        /\ RaiseFailure)
     => /\ outcome' = "ok"
        /\ active_constraint_' = NULL
        /\ Has(constraint_map_', active_constraint_)
        /\ constraint_map_'[active_constraint_].failures = 1
        /\ constraint_map_'[active_constraint_].initial_propagation_end_time
             = now']_vars

\* C3: with a demon active and no constraint active, RaiseFailure appends
\* one end time to the demon's record, adds 1 to its failures, clears the
\* active demon and leaves every other record unchanged.
C3_FailureClosesDemonRun ==
  [][(outcome = "ok" /\ active_constraint_ = NULL /\ active_demon_ # NULL
        /\ RaiseFailure)
     => /\ outcome' = "ok"
        /\ Has(demon_map_, active_demon_)
        /\ DOMAIN demon_map_' = DOMAIN demon_map_
        /\ demon_map_'[active_demon_] =
             [demon_map_[active_demon_] EXCEPT
                !.end_time = Append(@, now'), !.failures = @ + 1]
        /\ \A d \in DOMAIN demon_map_ \ {active_demon_} :
             demon_map_'[d] = demon_map_[d]
        /\ constraint_map_' = constraint_map_
        /\ active_demon_' = NULL]_vars

\* C4: with neither latch set, RaiseFailure changes no constraint record,
\* no demon record, no per-constraint list and no latch, and returns.
C4_FailureOutsidePhaseIsNoOp ==
  [][(outcome = "ok" /\ Idle /\ RaiseFailure)
     => /\ outcome' = "ok"
        /\ UNCHANGED <<constraint_map_, demon_map_, demons_per_constraint_,
                       active_constraint_, active_demon_>>]_vars

\* An idle monitor that holds records a failure could have touched.
C4_Witness ==
  /\ outcome = "ok"
  /\ Idle
  /\ DOMAIN constraint_map_ # {}
  /\ \E d \in DOMAIN demon_map_ : Len(demon_map_[d].end_time) > 0

\* C5: every demon record other than the active demon's has as many start
\* times as end times and the active demon's has one more; so with no demon
\* active neither ExportInformation fails its size comparison.
C5_StartEndPairing ==
  outcome = "ok" =>
    /\ \A d \in DOMAIN demon_map_ :
         /\ demon_map_[d] # NullRuns
         /\ Len(demon_map_[d].start_time) =
              Len(demon_map_[d].end_time) + (IF d = active_demon_ THEN 1 ELSE 0)
    /\ active_demon_ = NULL =>
         /\ \A c \in DOMAIN constraint_map_ : Exported(c).outcome # "CHECK@236"
         /\ \A d \in DOMAIN demon_map_ :
              DemonInformation(demon_map_[d]).outcome = "ok"
         /\ \A order \in Orders(constraint_map_) :
              Overview(order).outcome \notin {"CHECK@236", "CHECK@255"}

\* A run that RaiseFailure closed: the record holds a failure and a run that
\* does not end before it starts (a fake run starts at 1 and ends at 0).
C5_Witness ==
  /\ outcome = "ok"
  /\ active_demon_ = NULL
  /\ \E d \in DOMAIN demon_map_ :
       /\ demon_map_[d].failures = 1
       /\ Len(demon_map_[d].start_time) = 1
       /\ Len(demon_map_[d].end_time) = 1
       /\ demon_map_[d].start_time[1] <= demon_map_[d].end_time[1]

\* How often demon occurs in a per-constraint list.
Occurrences(demon, demons) ==
  Cardinality({i \in DOMAIN demons : demons[i] = demon})

\* The constraints whose per-constraint list holds demon.
Owners(demon, dpc) ==
  {c \in Constraints : Occurrences(demon, dpc[c]) > 0}

\* C6: RegisterDemon of a known demon changes nothing, whichever constraint
\* is active; no demon occurs twice in a list or in two lists; and a demon
\* stays in the list it was put in for as long as it is known.
C6_RegisterDemonIdempotent ==
  /\ [](outcome = "ok" =>
          \A d \in Demons :
            /\ Cardinality(Owners(d, demons_per_constraint_)) <= 1
            /\ \A c \in Constraints :
                 Occurrences(d, demons_per_constraint_[c]) <= 1
            /\ d \in DOMAIN demon_map_ =>
                 Cardinality(Owners(d, demons_per_constraint_)) = 1)
  /\ [][\A d \in Demons :
          /\ (outcome = "ok" /\ d \in DOMAIN demon_map_ /\ RegisterDemon(d))
               => /\ outcome' = "ok"
                  /\ UNCHANGED <<constraint_map_, demon_map_,
                                 demons_per_constraint_, active_constraint_,
                                 active_demon_, now>>
          /\ (outcome' = "ok" /\ d \in DOMAIN demon_map_
                /\ d \in DOMAIN demon_map_')
               => Owners(d, demons_per_constraint_')
                    = Owners(d, demons_per_constraint_)]_vars

\* A known demon while a constraint other than its own is active.
C6_Witness ==
  /\ outcome = "ok"
  /\ active_constraint_ # NULL
  /\ \E d \in DOMAIN demon_map_ :
       /\ Owners(d, demons_per_constraint_) # {}
       /\ active_constraint_ \notin Owners(d, demons_per_constraint_)

\* The summary with every figure zero.
ZeroSummary ==
  [outcome |-> "ok", kind |-> "Constraint", fails |-> 0,
   initial_propagation_runtime |-> 0, demon_invocations |-> 0,
   total_demon_runtime |-> 0, demons |-> 0]

\* C7, as stated: after RestartSearch the three maps are empty, the
\* overview has no line, and ExportInformation for a constraint recorded
\* before returns zeros.
C7_ResetThenQueriesEmpty ==
  [][(outcome = "ok" /\ RestartSearch)
     => /\ constraint_map_' = <<>>
        /\ demon_map_' = <<>>
        /\ demons_per_constraint_' = NoDemons
        /\ \A order \in Orders(constraint_map_') :
             Overview(order)' = [outcome |-> "ok", lines |-> <<>>]
        /\ \A c \in DOMAIN constraint_map_ :
             Exported(c)' = ZeroSummary]_vars

\* C7, amended: after RestartSearch the three maps are empty and the
\* overview has no line; ExportInformation for any constraint, recorded
\* before or not, hands back no figure at all: it fails CHECK_NOTNULL(ct_run).
C7_ResetLeavesNoRecord ==
  [][(outcome = "ok" /\ RestartSearch)
     => /\ constraint_map_' = <<>>
        /\ demon_map_' = <<>>
        /\ demons_per_constraint_' = NoDemons
        /\ \A order \in Orders(constraint_map_') :
             Overview(order)' = [outcome |-> "ok", lines |-> <<>>]
        /\ \A c \in Constraints :
             Exported(c)' = [outcome |-> "CHECK@223"]]_vars

\* The state after a RestartSearch that had records to discard: the clock
\* has advanced, which only calls that leave a record behind make it do.
C7_Witness ==
  /\ outcome = "ok"
  /\ now > 0
  /\ constraint_map_ = <<>>
  /\ demon_map_ = <<>>
  /\ demons_per_constraint_ = NoDemons

\* C8: right after RestartSearch no constraint and no demon is active.
C8_ResetClearsLatches ==
  [][(outcome = "ok" /\ RestartSearch) => Idle']_vars

\* C9: after StartInitialPropagation(C), RegisterDemon(R) for an unknown R,
\* n >= 1 times StartDemonRun(R) and EndDemonRun(R), and
\* EndInitialPropagation(C), started from an idle monitor, every call has
\* returned and ExportInformation(C) yields fails 0, demons 1 and
\* demon_invocations n.
C9_EndToEnd ==
  (outcome = "ok" /\ e2e.stage = "closed") =>
    /\ Exported(e2e.c).outcome = "ok"
    /\ Exported(e2e.c).fails = 0
    /\ Exported(e2e.c).demons = 1
    /\ Exported(e2e.c).demon_invocations = e2e.n

RECURSIVE OwnedTotal(_, _)
\* The sum of figure[d] over the demons d listed.
OwnedTotal(demons, figure) ==
  IF demons = <<>> THEN 0
  ELSE figure[Head(demons)] + OwnedTotal(Tail(demons), figure)

FailureCount == [d \in DOMAIN demon_map_ |-> demon_map_[d].failures]
RunCount == [d \in DOMAIN demon_map_ |-> Len(demon_map_[d].end_time)]
RunTime ==
  [d \in DOMAIN demon_map_ |->
     RunsTotal(demon_map_[d], Len(demon_map_[d].end_time))]

\* C10: with no demon active, ExportInformation for a recorded constraint
\* returns its failures plus those of the demons it owns, its end time
\* minus its start time, the number of demons it owns, their number of
\* runs and the sum of end - start over those runs.
C10_ConstraintSummary ==
  (outcome = "ok" /\ active_demon_ = NULL) =>
    \A c \in DOMAIN constraint_map_ :
      LET owned == demons_per_constraint_[c]
          ct_run == constraint_map_[c]
      IN Exported(c) =
           [outcome |-> "ok", kind |-> "Constraint",
            fails |-> ct_run.failures
                        + OwnedTotal(owned, FailureCount),
            initial_propagation_runtime |->
              ct_run.initial_propagation_end_time
                - ct_run.initial_propagation_start_time,
            demon_invocations |-> OwnedTotal(owned, RunCount),
            total_demon_runtime |-> OwnedTotal(owned, RunTime),
            demons |-> Len(owned)]

\* The runtimes of a record's runs, in the order recorded.
Durations(demon_runs) ==
  [i \in 1..Len(demon_runs.end_time) |->
     demon_runs.end_time[i] - demon_runs.start_time[i]]

RECURSIVE SeqSum(_)
SeqSum(seq) == IF seq = <<>> THEN 0 ELSE Head(seq) + SeqSum(Tail(seq))

\* The k-th smallest of the values of seq, by counting.
Ranked(seq, k) ==
  CHOOSE v \in {seq[i] : i \in DOMAIN seq} :
    /\ Cardinality({i \in DOMAIN seq : seq[i] < v}) < k
    /\ k <= Cardinality({i \in DOMAIN seq : seq[i] <= v})

\* C11: for a demon holding N runs of runtimes d_1..d_N the summary returns
\* invocations N, total runtime d_1 + ... + d_N, the record's failures and,
\* when N > 0, mean = total / N; when N = 0 total, mean, median and stddev
\* are 0 and nothing is divided by zero.
C11_CountsAndMean ==
  \A d \in DOMAIN demon_map_ :
    LET info == DemonInformation(demon_map_[d])
        dur == Durations(demon_map_[d])
        N == Len(dur)
    IN /\ info.outcome = "ok"
       /\ info.demon_invocations = N
       /\ info.total_demon_runtime = SeqSum(dur)
       /\ info.fails = demon_map_[d].failures
       /\ info.mean_den # 0 /\ info.median_den # 0 /\ info.variance_den # 0
       /\ N > 0 => info.mean_num * N = SeqSum(dur) * info.mean_den
       /\ N = 0 => /\ info.total_demon_runtime = 0
                   /\ info.mean_num = 0
                   /\ info.median_num = 0
                   /\ info.variance_num = 0

\* Two runs of runtimes 5 and 10: the mean is 15 / 2.
C11_Witness ==
  \E d \in DOMAIN demon_map_ :
    /\ Len(demon_map_[d].end_time) = 2
    /\ {Durations(demon_map_[d])[i] : i \in 1..2} = {5, 10}
    /\ DemonInformation(demon_map_[d]).mean_num * 2
         = 15 * DemonInformation(demon_map_[d]).mean_den

\* C12: for N >= 1 runs the median is the middle one of the runtimes in
\* ascending order when N is odd and the average of the two middle ones
\* when N is even, whatever the order in which the runs were recorded.
C12_Median ==
  \A d \in DOMAIN demon_map_ :
    LET info == DemonInformation(demon_map_[d])
        dur == Durations(demon_map_[d])
        N == Len(dur)
    IN N >= 1 =>
         /\ info.outcome = "ok"
         /\ info.median_den > 0
         /\ IF N % 2 = 1
            THEN info.median_num = Ranked(dur, (N + 1) \div 2) * info.median_den
            ELSE 2 * info.median_num =
                   (Ranked(dur, N \div 2) + Ranked(dur, N \div 2 + 1))
                     * info.median_den

\* Runtimes recorded as 30, 10, 20: the median is 20.
C12_Witness ==
  \E d \in DOMAIN demon_map_ :
    /\ Durations(demon_map_[d]) = <<30, 10, 20>>
    /\ DemonInformation(demon_map_[d]).median_num
         = 20 * DemonInformation(demon_map_[d]).median_den

\* C13: for N >= 1 runs stddev^2 * N is the sum of (d_i - mean)^2, the
\* population variance; in integers, N^2 * stddev^2 = N * sum d_i^2 - total^2.
C13_PopulationStddev ==
  \A d \in DOMAIN demon_map_ :
    LET info == DemonInformation(demon_map_[d])
        dur == Durations(demon_map_[d])
        N == Len(dur)
        squares == [i \in DOMAIN dur |-> dur[i] * dur[i]]
    IN N >= 1 =>
         /\ info.outcome = "ok"
         /\ info.variance_den > 0
         /\ info.variance_num * N * N =
              (N * SeqSum(squares) - SeqSum(dur) * SeqSum(dur))
                * info.variance_den

\* Three runs of runtimes 10, 20 and 30: stddev^2 is 200 / 3.
C13_Witness ==
  \E d \in DOMAIN demon_map_ :
    /\ Len(demon_map_[d].end_time) = 3
    /\ {Durations(demon_map_[d])[i] : i \in 1..3} = {10, 20, 30}
    /\ 3 * DemonInformation(demon_map_[d]).variance_num
         = 200 * DemonInformation(demon_map_[d]).variance_den

\* The outcomes that are a failed CHECK, CHECK_NOTNULL or CHECK_EQ.
FailedChecks ==
  {"CHECK@49", "CHECK@50", "CHECK@51", "CHECK@60", "CHECK@61", "CHECK@62",
   "CHECK@63", "CHECK@65", "CHECK@73", "CHECK@74", "CHECK@75", "CHECK@86",
   "CHECK@87", "CHECK@94", "CHECK@95", "CHECK@97", "CHECK@104", "CHECK@106",
   "CHECK@123", "CHECK@125", "CHECK@221", "CHECK@223", "CHECK@232",
   "CHECK@236", "CHECK@255"}

\* The call ended in a failed CHECK and wrote nothing before it.
RejectedUntouched ==
  /\ outcome' \in FailedChecks
  /\ UNCHANGED <<active_constraint_, active_demon_, constraint_map_,
                 demon_map_, demons_per_constraint_, now>>

\* C14: StartInitialPropagation while a constraint or a demon is active,
\* EndInitialPropagation while no constraint is active or for another
\* constraint than the active one, StartDemonRun while a demon is active and
\* EndDemonRun for a demon that is not the active one each end in a failed
\* CHECK, with every record, list and latch unchanged.
C14_ViolationsFatalAndClean ==
  [][/\ \A c \in Constraints :
          /\ (outcome = "ok" /\ ~Idle /\ StartInitialPropagation(c))
               => RejectedUntouched
          /\ (outcome = "ok" /\ c # active_constraint_
                /\ EndInitialPropagation(c))
               => RejectedUntouched
     /\ \A d \in Demons :
          /\ (outcome = "ok" /\ active_demon_ # NULL /\ StartDemonRun(d))
               => RejectedUntouched
          /\ (outcome = "ok" /\ d # active_demon_ /\ EndDemonRun(d))
               => RejectedUntouched]_vars

\* EndInitialPropagation was called for another constraint than the active
\* one: the process is gone, the active constraint's record is as it was.
C14_Witness ==
  /\ outcome = "CHECK@63"
  /\ active_constraint_ # NULL
  /\ Has(constraint_map_, active_constraint_)
  /\ constraint_map_[active_constraint_].initial_propagation_end_time = 0

\* C15: StartDemonRun for a demon that has no record ends in a failed
\* CHECK, does not make the demon the active one and creates no entry for
\* it in demon_map_.
C15_UnregisteredRunRejected ==
  [][\A d \in Demons :
       (outcome = "ok" /\ ~Has(demon_map_, d) /\ StartDemonRun(d))
         => /\ outcome' \in FailedChecks
            /\ active_demon_' # d
            /\ ~Has(demon_map_', d)]_vars

\* Every known demon is in the list of exactly one constraint, once.
OwnedOnce ==
  outcome = "ok" =>
    \A d \in DOMAIN demon_map_ :
      /\ Cardinality(Owners(d, demons_per_constraint_)) = 1
      /\ \A c \in Owners(d, demons_per_constraint_) :
           Occurrences(d, demons_per_constraint_[c]) = 1

\* before is an initial part of after.
IsPrefix(before, after) ==
  /\ Len(before) <= Len(after)
  /\ \A i \in DOMAIN before : before[i] = after[i]

\* The identities of the lines of an overview that visits the constraints
\* in the order given and each constraint's demons in list order.
RECURSIVE ListedIds(_, _)
ListedIds(order, dpc) ==
  IF order = <<>> THEN <<>>
  ELSE <<Head(order)>> \o dpc[Head(order)] \o ListedIds(Tail(order), dpc)

\* The overview prints each constraint's demons in the order of its list.
PrintedInListOrder ==
  outcome = "ok" =>
    \A order \in Orders(constraint_map_) :
      Overview(order).outcome = "ok" =>
        [i \in DOMAIN Overview(order).lines |-> Overview(order).lines[i].id]
          = ListedIds(order, demons_per_constraint_)

\* A list only grows at its end, or is discarded as a whole.
FirstRegistrationOrder ==
  \A c \in Constraints :
    \/ demons_per_constraint_'[c] = <<>>
    \/ IsPrefix(demons_per_constraint_[c], demons_per_constraint_'[c])

\* C16, as stated: RegisterDemon of an unknown demon fails when no
\* constraint is active and otherwise creates a record with failures 0 and
\* appends it to the active constraint's list; every known demon is in
\* exactly one list, once, and the lists are in first-registration order.
C16_RuleOwnership ==
  /\ [](OwnedOnce /\ PrintedInListOrder)
  /\ [][/\ FirstRegistrationOrder
        /\ \A d \in Demons :
             (outcome = "ok" /\ ~Has(demon_map_, d) /\ RegisterDemon(d))
               => IF active_constraint_ = NULL
                  THEN outcome' # "ok"
                  ELSE /\ outcome' = "ok"
                       /\ demon_map_' = MapSet(demon_map_, d, NewDemonRuns)
                       /\ demons_per_constraint_' =
                            [demons_per_constraint_ EXCEPT
                               ![active_constraint_] = Append(@, d)]]_vars

\* C16, amended: RegisterDemon of an unknown demon fails a CHECK, with
\* nothing changed, when no constraint is active and also when a demon is
\* active; with a constraint active and no demon active it creates a record
\* with failures 0 and appends it to the active constraint's list, unless
\* that constraint has no record, where it dereferences a null pointer.
\* The rest is as stated.
C16_RuleOwnershipOutsideRuns ==
  /\ [](OwnedOnce /\ PrintedInListOrder)
  /\ [][/\ FirstRegistrationOrder
        /\ \A d \in Demons :
             (outcome = "ok" /\ ~Has(demon_map_, d) /\ RegisterDemon(d))
               => IF active_constraint_ = NULL \/ active_demon_ # NULL
                  THEN RejectedUntouched
                  ELSE IF ~Has(constraint_map_, active_constraint_)
                  THEN outcome' = "SIGSEGV@77"
                  ELSE /\ outcome' = "ok"
                       /\ demon_map_' = MapSet(demon_map_, d, NewDemonRuns)
                       /\ demons_per_constraint_' =
                            [demons_per_constraint_ EXCEPT
                               ![active_constraint_] = Append(@, d)]
                       /\ constraint_map_'[active_constraint_].demons =
                            Append(constraint_map_[active_constraint_].demons, d)
                       /\ UNCHANGED <<active_constraint_, active_demon_>>]_vars

\* Two demons registered one after the other under the same constraint.
C16_Witness ==
  /\ outcome = "ok"
  /\ \E c \in Constraints :
       /\ Len(demons_per_constraint_[c]) = 2
       /\ \A i \in 1..2 : Has(demon_map_, demons_per_constraint_[c][i])
       /\ demons_per_constraint_[c] = <<DemonOrder[1], DemonOrder[2]>>

\* ExportInformation(c) returns in both states of the step and its failures
\* figure does not go down.
FailuresKept(c) ==
  Exported(c).outcome = "ok" =>
    /\ Exported(c)'.outcome = "ok"
    /\ Exported(c)'.fails >= Exported(c).fails

\* ExportInformation(c) returns in both states of the step and its failures
\* figure has grown by amount.
FailuresGrown(c, amount) ==
  /\ Exported(c).outcome = "ok"
  /\ Exported(c)'.outcome = "ok"
  /\ Exported(c)'.fails = Exported(c).fails + amount

\* C17: a RaiseFailure made while a constraint or a demon is active raises
\* the failures figure of exactly one constraint by exactly 1 and leaves
\* the other figures as they were; it never closes both the constraint's
\* phase and the demon's run; and a later EndInitialPropagation or
\* StartInitialPropagation never lowers a figure.
C17_NoDoubleCounting ==
  [][/\ (outcome = "ok" /\ ~Idle /\ RaiseFailure)
          => /\ outcome' = "ok"
             /\ \E c \in DOMAIN constraint_map_ :
                  /\ FailuresGrown(c, 1)
                  /\ \A other \in DOMAIN constraint_map_ \ {c} :
                       Exported(other)' = Exported(other)
             /\ ~(active_constraint_' # active_constraint_
                    /\ active_demon_' # active_demon_)
     /\ \A c \in Constraints :
          (outcome = "ok" /\ outcome' = "ok"
             /\ (EndInitialPropagation(c) \/ StartInitialPropagation(c)))
            => \A any \in DOMAIN constraint_map_ : FailuresKept(any)]_vars

\* C18: for every recorded constraint the number of DemonRuns inside its
\* ConstraintRuns equals the length of its per-constraint list, so the
\* CHECK_EQ of ExportInformation never fails, also after
\* StartInitialPropagation is called again for a constraint that has demons.
C18_OwnershipViewsAgree ==
  outcome = "ok" =>
    /\ \A c \in DOMAIN constraint_map_ :
         /\ Len(constraint_map_[c].demons) = Len(demons_per_constraint_[c])
         /\ Exported(c).outcome # "CHECK@232"
    /\ \A order \in Orders(constraint_map_) :
         Overview(order).outcome # "CHECK@232"

\* C19: when RaiseFailure returns, no constraint and no demon is active and
\* no demon record has more start times than end times.
C19_FailureReturnsToIdle ==
  [][(outcome = "ok" /\ RaiseFailure /\ outcome' = "ok")
     => /\ Idle'
        /\ \A d \in DOMAIN demon_map_' :
             Len(demon_map_'[d].start_time) = Len(demon_map_'[d].end_time)]_vars

====
